---- MODULE Spec2Model ----
(***************************************************************************)
(* A model of jibi's core: the Mmu (address blocks, keys and mutexes,     *)
(* owner-checked byte access, memory mapped io with queued writes) and    *)
(* the Cpu step (io settlement, interrupt dispatch, fetch, execute, boot  *)
(* ROM overlay).                                                           *)
(***************************************************************************)
EXTENDS Integers, Sequences, FiniteSets, TLC

VARIABLES
    mmu,      \* the Mmu: memory blocks, ie, ioIF, ioP1, locks
    keys,     \* keys[w]: the AddressKeys worker w holds (worker-local)
    last,     \* the last Mmu call made and how it ended
    scope,    \* the addresses the bus masters of this run use
    pend,     \* history: per io port, the non-owner write not settled yet
    cpu,      \* the Cpu: registers, ime, clocks, inst, biosFinished, position
    bios,     \* the boot ROM handed to NewCpu, if one is given
    hist      \* history of the Cpu run: reads of the overlay range, PC = 0x0100

vars == <<mmu, keys, last, scope, pend, cpu, bios, hist>>

----------------------------------------------------------------------------
(* Bounds of the model *)

\* bus masters of the Mmu specification: 1..NumWorkers
NumWorkers == 2

\* bytes the bus masters write: 0..MaxVal
MaxVal == 1

----------------------------------------------------------------------------
(* Integer helpers: Go's &, uint8 and uint16 arithmetic *)

RECURSIVE BitAnd(_, _)
BitAnd(a, b) ==
    IF a = 0 \/ b = 0 THEN 0
    ELSE (a % 2) * (b % 2) + 2 * BitAnd(a \div 2, b \div 2)

W16(x) == x % 65536

W8(x) == x % 256

\* a store that is dropped
SetDropped(s, i, b) == s

\* a zero-initialised Go slice, kept sparse: absent index = 0
Get(s, i) == IF i \in DOMAIN s THEN s[i] ELSE 0

Set(s, i, b) ==
    IF b = 0 THEN [x \in (DOMAIN s) \ {i} |-> s[x]]
    ELSE [x \in (DOMAIN s) \cup {i} |-> IF x = i THEN b ELSE s[x]]

Empty == [x \in {} |-> 0]

----------------------------------------------------------------------------
(* mmu.go: the special memory addresses *)

AddrRom == 0
AddrVRam == 32768
AddrERam == 40960
AddrRam == 49152
AddrOam == 65024
AddrOamEnd == 65184
AddrP1 == 65280
AddrIF == 65295
AddrGpuRegs == 65344
AddrGpuRegsEnd == 65356
AddrZero == 65408
AddrIE == 65535

(* mmu.go: addressBlock, one bit per block; abNil is the zero value *)

abNil == 0
abRom == 2
abVRam == 4
abERam == 8
abRam == 16
abOam == 32
abP1 == 64
abIF == 128
abGpuRegs == 256
abZero == 512
abIE == 1024
abLast == abIE

Blocks == {abRom, abVRam, abERam, abRam, abOam, abP1, abIF, abGpuRegs, abZero, abIE}

\* the length of the cartridge ROM handed to NewMmu
RomLen == 32768

----------------------------------------------------------------------------
(* Mmu.getAddressInfo: the second result, whether the address is a known one *)

getAddressInfo(a) ==
    IF 39936 <= a /\ a <= 40959 THEN FALSE
    ELSE IF 65184 <= a /\ a <= 65279 THEN TRUE
    ELSE IF a = 65280 THEN FALSE
    ELSE IF 65281 <= a /\ a <= 65294 THEN TRUE
    ELSE IF 65296 <= a /\ a <= 65300 THEN TRUE
    ELSE IF a \in {65303, 65305, 65306, 65312, 65313} THEN TRUE
    ELSE IF 65315 <= a /\ a <= 65318 THEN TRUE
    ELSE IF 65328 <= a /\ a <= 65343 THEN TRUE
    ELSE IF a = 65351 THEN FALSE
    ELSE IF 65357 <= a /\ a <= 65407 THEN TRUE
    ELSE FALSE

\* no block for any address, and never a panic
noBlockSilent(a, rw) == [blk |-> abNil, start |-> 0, panic |-> FALSE, rw |-> ""]

\* selectAddressBlock's last lines, for an address in no block: the panic
\* "unhandled memory <rw>" when getAddressInfo does not know the address,
\* abNil when it does
noBlock(a, rw) ==
    [blk |-> abNil, start |-> 0, panic |-> ~getAddressInfo(a),
     rw |-> IF getAddressInfo(a) THEN "" ELSE IF rw = "" THEN "access" ELSE rw]

(* Mmu.selectAddressBlock: the block and its start, or the panic           *)

selectAddressBlock(a, rw) ==
    IF a < AddrVRam THEN [blk |-> abRom, start |-> 0, panic |-> FALSE, rw |-> ""]
    ELSE IF AddrVRam <= a /\ a < AddrERam THEN [blk |-> abVRam, start |-> AddrVRam, panic |-> FALSE, rw |-> ""]
    ELSE IF AddrERam <= a /\ a < AddrRam THEN [blk |-> abERam, start |-> AddrERam, panic |-> FALSE, rw |-> ""]
    ELSE IF AddrRam <= a /\ a < AddrOam THEN [blk |-> abRam, start |-> AddrRam, panic |-> FALSE, rw |-> ""]
    ELSE IF AddrOam <= a /\ a < AddrOamEnd THEN [blk |-> abOam, start |-> AddrOam, panic |-> FALSE, rw |-> ""]
    ELSE IF AddrP1 = a THEN [blk |-> abP1, start |-> AddrP1, panic |-> FALSE, rw |-> ""]
    ELSE IF AddrIF = a THEN [blk |-> abIF, start |-> AddrIF, panic |-> FALSE, rw |-> ""]
    ELSE IF AddrGpuRegs <= a /\ a < AddrGpuRegsEnd THEN [blk |-> abGpuRegs, start |-> AddrGpuRegs, panic |-> FALSE, rw |-> ""]
    ELSE IF AddrZero <= a /\ a < AddrIE THEN [blk |-> abZero, start |-> AddrZero, panic |-> FALSE, rw |-> ""]
    ELSE IF AddrIE = a THEN [blk |-> abIE, start |-> AddrIE, panic |-> FALSE, rw |-> ""]
    ELSE noBlock(a, rw)

\* an index into work RAM that is not folded
ramIndexWhole(off) == off

\* m.ram[(addr.Word()-start)&0x1FFF]: the echo folds onto work RAM
ramIndex(off) == BitAnd(off, 8191)

\* owner := addressBlock(ak)&blk == blk
IsOwner(ak, blk) == BitAnd(ak, blk) = blk

----------------------------------------------------------------------------
(* mmio: memory mapped io with a queued write *)

newMmio == [value |-> 0, read |-> 0, write |-> 0, queued |-> FALSE]

mmioReadByte(io, owner) == IF owner THEN io.value ELSE io.read

\* an owner's write that overwrites a queued write
mmioWriteByteClobber(io, b, owner) ==
    IF owner
    THEN [io EXCEPT !.value = b, !.read = b, !.write = b]
    ELSE [io EXCEPT !.queued = TRUE, !.write = b]

mmioWriteByte(io, b, owner) ==
    IF owner
    THEN [io EXCEPT !.value = b, !.read = b,
                    !.write = IF io.queued THEN @ ELSE b]
    ELSE [io EXCEPT !.queued = TRUE, !.write = b]

\* the owner's branch of readIoByte; a non-owner panics (see ReadIoByte)
mmioReadIoByte(io) ==
    [io |-> [io EXCEPT !.queued = FALSE], val |-> io.write, q |-> io.queued]

----------------------------------------------------------------------------
(* NewMmu: zeroed memory blocks, two io ports, one free mutex per block.  *)
(* locks[blk] is 0 when the mutex is free, else the worker that locked it *)

NewMmu(romImage) ==
    [rom |-> romImage, vram |-> Empty, ram |-> Empty, oam |-> Empty,
     gpuregs |-> Empty, zero |-> Empty, ie |-> 0,
     ioIF |-> newMmio, ioP1 |-> newMmio,
     locks |-> [b \in Blocks |-> 0]]

----------------------------------------------------------------------------
(* The Mmu's calls. Each returns the Mmu after the call (m), the key set  *)
(* returned (ak), how the call ended (res: "ok" or the panic) and, for a  *)
(* read, the byte (val) and the queued flag (q).                          *)

Ret(m, ak, res, val, q) ==
    [m |-> m, ak |-> ak, res |-> res, dir |-> "", val |-> val, q |-> q]

\* a panic: the program ends; dir is the direction the message names
Panic(m, ak, res, dir) ==
    [m |-> m, ak |-> ak, res |-> res, dir |-> dir, val |-> 0, q |-> FALSE]

\* a Lock() that the holder of the key reaches too
LockBlocksHolder(m, a, ak) ==
    /\ ~selectAddressBlock(a, "lock").panic
    /\ m.locks[selectAddressBlock(a, "lock").blk] # 0

\* m.locks[blk].Lock() blocks the caller: the block's mutex is taken and the
\* caller does not have the key
LockBlocks(m, a, ak) ==
    LET sel == selectAddressBlock(a, "lock") IN
    /\ ~sel.panic
    /\ ~IsOwner(ak, sel.blk)
    /\ m.locks[sel.blk] # 0

\* a LockAddr that hands out the key without m.locks[blk].Lock()
LockAddrNoMutex(m, a, ak, w) ==
    IF selectAddressBlock(a, "lock").panic
    THEN Panic(m, ak, "unhandled", selectAddressBlock(a, "lock").rw)
    ELSE IF IsOwner(ak, selectAddressBlock(a, "lock").blk) THEN Ret(m, ak, "ok", 0, FALSE)
    ELSE Ret(m, ak + selectAddressBlock(a, "lock").blk, "ok", 0, FALSE)

LockAddr(m, a, ak, w) ==
    LET sel == selectAddressBlock(a, "lock") IN
    IF sel.panic THEN Panic(m, ak, "unhandled", sel.rw)
    ELSE IF IsOwner(ak, sel.blk) THEN Ret(m, ak, "ok", 0, FALSE)
    ELSE Ret([m EXCEPT !.locks[sel.blk] = w], ak + sel.blk, "ok", 0, FALSE)

\* an UnlockAddr that releases the mutex whoever calls
UnlockAddrAnyone(m, a, ak) ==
    LET sel == selectAddressBlock(a, "unlock") IN
    IF sel.panic THEN Panic(m, ak, "unhandled", sel.rw)
    ELSE IF sel.blk = abNil THEN Panic(m, ak, "nil_mutex", "")
    ELSE IF m.locks[sel.blk] = 0 THEN Panic(m, ak, "unlock_of_unlocked", "")
    ELSE Ret([m EXCEPT !.locks[sel.blk] = 0],
             IF IsOwner(ak, sel.blk) THEN ak - sel.blk ELSE ak, "ok", 0, FALSE)

\* locks[abNil] is nil (NewMmu makes mutexes for 1, 2, 4 .. abLast only):
\* Unlock on it is a nil dereference; Unlock of a free mutex is fatal too
UnlockAddr(m, a, ak) ==
    LET sel == selectAddressBlock(a, "unlock") IN
    IF sel.panic THEN Panic(m, ak, "unhandled", sel.rw)
    ELSE IF ~IsOwner(ak, sel.blk) THEN Ret(m, ak, "ok", 0, FALSE)
    ELSE IF sel.blk = abNil THEN Panic(m, ak, "nil_mutex", "")
    ELSE IF m.locks[sel.blk] = 0 THEN Panic(m, ak, "unlock_of_unlocked", "")
    ELSE Ret([m EXCEPT !.locks[sel.blk] = 0], ak - sel.blk, "ok", 0, FALSE)

\* the last lines of ReadByteAt and WriteByteAt without the owner's check
FallThroughAnyone(m, a, ak, owner, rw) ==
    IF ~getAddressInfo(a) THEN Panic(m, ak, "unhandled", rw)
    ELSE Ret(m, ak, "ok", 0, FALSE)

\* what both ReadByteAt and WriteByteAt do when no block's branch returned
FallThrough(m, a, ak, owner, rw) ==
    IF ~owner THEN Panic(m, ak, "unauthorized", rw)
    ELSE IF ~getAddressInfo(a) THEN Panic(m, ak, "unhandled", rw)
    ELSE Ret(m, ak, "ok", 0, FALSE)

ReadByteAt(m, a, ak) ==
    LET sel == selectAddressBlock(a, "read")
        blk == sel.blk
        off == a - sel.start
        owner == IsOwner(ak, blk)
    IN
    IF sel.panic THEN Panic(m, ak, "unhandled", sel.rw)
    ELSE IF blk = abRom /\ owner THEN
        IF off < RomLen THEN Ret(m, ak, "ok", Get(m.rom, off), FALSE)
        ELSE Panic(m, ak, "index_out_of_range", "")
    ELSE IF blk = abVRam /\ owner THEN Ret(m, ak, "ok", Get(m.vram, off), FALSE)
    ELSE IF blk = abRam /\ owner THEN Ret(m, ak, "ok", Get(m.ram, ramIndex(off)), FALSE)
    ELSE IF blk = abOam /\ owner THEN Ret(m, ak, "ok", Get(m.oam, off), FALSE)
    ELSE IF blk = abP1 THEN Ret(m, ak, "ok", mmioReadByte(m.ioP1, owner), FALSE)
    ELSE IF blk = abIF THEN Ret(m, ak, "ok", mmioReadByte(m.ioIF, owner), FALSE)
    ELSE IF blk = abGpuRegs /\ owner THEN Ret(m, ak, "ok", Get(m.gpuregs, off), FALSE)
    ELSE IF blk = abZero /\ owner THEN Ret(m, ak, "ok", Get(m.zero, off), FALSE)
    ELSE IF blk = abIE /\ owner THEN Ret(m, ak, "ok", m.ie, FALSE)
    ELSE FallThrough(m, a, ak, owner, "read")

\* a write to ROM that is stored
romWriteStored(m, off, b) == [m EXCEPT !.rom = Set(@, off, b)]

\* if blk == abRom { return }: the Mmu after a write to ROM
romWrite(m, off, b) == m

\* a non-owner's write to P1 also sends CmdKeyCheck to the keypad, which is
\* outside the Mmu's state
WriteByteAt(m, a, b, ak) ==
    LET sel == selectAddressBlock(a, "write")
        blk == sel.blk
        off == a - sel.start
        owner == IsOwner(ak, blk)
    IN
    IF sel.panic THEN Panic(m, ak, "unhandled", sel.rw)
    ELSE IF blk = abRom THEN Ret(romWrite(m, off, b), ak, "ok", 0, FALSE)
    ELSE IF blk = abVRam /\ owner THEN Ret([m EXCEPT !.vram = Set(@, off, b)], ak, "ok", 0, FALSE)
    ELSE IF blk = abRam /\ owner THEN Ret([m EXCEPT !.ram = Set(@, ramIndex(off), b)], ak, "ok", 0, FALSE)
    ELSE IF blk = abOam /\ owner THEN Ret([m EXCEPT !.oam = Set(@, off, b)], ak, "ok", 0, FALSE)
    ELSE IF blk = abP1 THEN Ret([m EXCEPT !.ioP1 = mmioWriteByte(@, b, owner)], ak, "ok", 0, FALSE)
    ELSE IF blk = abIF THEN Ret([m EXCEPT !.ioIF = mmioWriteByte(@, b, owner)], ak, "ok", 0, FALSE)
    ELSE IF blk = abGpuRegs /\ owner THEN Ret([m EXCEPT !.gpuregs = Set(@, off, b)], ak, "ok", 0, FALSE)
    ELSE IF blk = abZero /\ owner THEN Ret([m EXCEPT !.zero = Set(@, off, b)], ak, "ok", 0, FALSE)
    ELSE IF blk = abIE /\ owner THEN Ret([m EXCEPT !.ie = b], ak, "ok", 0, FALSE)
    ELSE FallThrough(m, a, ak, owner, "write")

ReadIoByte(m, a, ak) ==
    LET sel == selectAddressBlock(a, "write")
        blk == sel.blk
        owner == IsOwner(ak, blk)
    IN
    IF sel.panic THEN Panic(m, ak, "unhandled", sel.rw)
    ELSE IF blk = abP1 THEN
        IF owner
        THEN LET r == mmioReadIoByte(m.ioP1) IN Ret([m EXCEPT !.ioP1 = r.io], ak, "ok", r.val, r.q)
        ELSE Panic(m, ak, "unhandled_io_read", "")
    ELSE IF blk = abIF THEN
        IF owner
        THEN LET r == mmioReadIoByte(m.ioIF) IN Ret([m EXCEPT !.ioIF = r.io], ak, "ok", r.val, r.q)
        ELSE Panic(m, ak, "unhandled_io_read", "")
    ELSE Panic(m, ak, "unhandled_queued_write", "")

----------------------------------------------------------------------------
(* Bus masters calling the Mmu. A panic ends the program: nothing runs    *)
(* after it.                                                               *)

Workers == 1..NumWorkers

Vals == 0..MaxVal

\* addresses the bus masters use: both ends or the start of every block, the
\* echo of work RAM, and addresses in no block, known ones and unknown ones
\* (Scopes adds the last address of work RAM that has an echo, and the echo)
Addrs ==
    {0, 32767, 32768, 39936, 40960, 49152, 57344, 65024, 65184, 65280, 65281,
     65295, 65301, 65344, 65356, 65357, 65408, 65535}

\* a run uses one address of Addrs and one of video RAM, or an address of
\* work RAM and its echo: the first pair and the last
Scopes == {{a, 32768} : a \in Addrs} \cup {{49152, 57344}, {56831, 65023}}

Ports == {abP1, abIF}

NoCall ==
    [op |-> "none", w |-> 0, a |-> 0, b |-> 0, res |-> "none", dir |-> "",
     val |-> 0, q |-> FALSE]

Alive == last.res \in {"none", "ok"}

\* the call's effect on the Mmu and on the caller's keys, and its record
Call(op, w, a, b, r) ==
    /\ mmu' = r.m
    /\ keys' = [keys EXCEPT ![w] = r.ak]
    /\ last' = [op |-> op, w |-> w, a |-> a, b |-> b,
                res |-> r.res, dir |-> r.dir, val |-> r.val, q |-> r.q]

\* history: a non-owner's write to a port waits for the owner's ReadIoByte
PendWrite(p, a, b, ak, res) ==
    LET blk == selectAddressBlock(a, "").blk IN
    IF res = "ok" /\ blk \in Ports /\ ~IsOwner(ak, blk)
    THEN [p EXCEPT ![blk] = [q |-> TRUE, v |-> b]]
    ELSE p

PendSettle(p, a, res) ==
    LET blk == selectAddressBlock(a, "").blk IN
    IF res = "ok" /\ blk \in Ports
    THEN [p EXCEPT ![blk] = [q |-> FALSE, v |-> 0]]
    ELSE p

NoPend == [p \in Ports |-> [q |-> FALSE, v |-> 0]]

WLock(w, a) ==
    /\ Alive
    /\ a \in scope
    /\ ~LockBlocks(mmu, a, keys[w])
    /\ Call("lock", w, a, 0, LockAddr(mmu, a, keys[w], w))
    /\ UNCHANGED <<scope, pend, cpu, bios, hist>>

WUnlock(w, a) ==
    /\ Alive
    /\ a \in scope
    /\ Call("unlock", w, a, 0, UnlockAddr(mmu, a, keys[w]))
    /\ UNCHANGED <<scope, pend, cpu, bios, hist>>

WRead(w, a) ==
    /\ Alive
    /\ a \in scope
    /\ Call("read", w, a, 0, ReadByteAt(mmu, a, keys[w]))
    /\ UNCHANGED <<scope, pend, cpu, bios, hist>>

WWrite(w, a, b) ==
    /\ Alive
    /\ a \in scope
    /\ \E r \in {WriteByteAt(mmu, a, b, keys[w])} :
        /\ Call("write", w, a, b, r)
        /\ pend' = PendWrite(pend, a, b, keys[w], r.res)
    /\ UNCHANGED <<scope, cpu, bios, hist>>

WReadIo(w, a) ==
    /\ Alive
    /\ a \in scope
    /\ \E r \in {ReadIoByte(mmu, a, keys[w])} :
        /\ Call("readio", w, a, 0, r)
        /\ pend' = PendSettle(pend, a, r.res)
    /\ UNCHANGED <<scope, cpu, bios, hist>>

----------------------------------------------------------------------------
(* The Mmu under bus masters that start with no key *)

NoCpu == [pos |-> "none"]

NoBios == [given |-> FALSE, img |-> Empty]

NoLow == [a |-> -1, val |-> 0, src |-> "", seen |-> FALSE, began |-> FALSE]

\* history of a Cpu run: PC has been 0x0100; a step has begun with PC at
\* 0x0100; the last read of 0x0000-0x00FF by the Cpu, with both as they were
\* when it was made; what was queued for IF at the last settle; the Cpu has
\* not begun its first step
NoHist ==
    [seen100 |-> FALSE, began100 |-> FALSE, low |-> NoLow,
     settle |-> [q |-> FALSE, v |-> 0], fresh |-> TRUE]

\* the cartridge of the runs without a Cpu: a byte at each end of ROM
EndsRom == (0 :> 195) @@ (32767 :> 195)

Init ==
    /\ mmu = NewMmu(EndsRom)
    /\ keys = [w \in Workers |-> 0]
    /\ last = NoCall
    /\ scope \in Scopes
    /\ pend = NoPend
    /\ cpu = NoCpu
    /\ bios = NoBios
    /\ hist = NoHist

Next ==
    \E w \in Workers, a \in scope :
        \/ WLock(w, a)
        \/ WUnlock(w, a)
        \/ WRead(w, a)
        \/ \E b \in Vals : WWrite(w, a, b)
        \/ WReadIo(w, a)

Spec == Init /\ [][Next]_vars

----------------------------------------------------------------------------
(* Properties of the Mmu's calls, checked under Spec *)

BlkOf(a) == selectAddressBlock(a, "").blk

\* the blocks the Mmu keeps bytes for, as the specification lists them
MemBlocks == {abRom, abVRam, abERam, abRam, abOam, abGpuRegs, abZero, abIE}

\* the call that made this step was made by a caller without the block's key
LastLacksKey == ~IsOwner(keys[last'.w], BlkOf(last'.a))

\* C1: in every reachable state each block's bit is in at most one worker's
\* key set, and that worker is the one that locked the block's mutex.
C1_MutualExclusion ==
    \A b \in Blocks :
        /\ \A w \in Workers : IsOwner(keys[w], b) => mmu.locks[b] = w
        /\ Cardinality({w \in Workers : IsOwner(keys[w], b)}) <= 1

\* a worker holds video RAM while another one, holding its own block, would
\* block on it
C1_Witness ==
    \E w1, w2 \in Workers :
        /\ w1 # w2
        /\ IsOwner(keys[w1], abVRam)
        /\ keys[w2] # 0
        /\ LockBlocks(mmu, AddrVRam, keys[w2])

\* C2 as claimed: ReadByteAt and WriteByteAt on a memory block without its
\* key end in the unauthorized panic.
C2_AsClaimed ==
    (/\ last.op \in {"read", "write"}
     /\ BlkOf(last.a) \in MemBlocks
     /\ ~IsOwner(keys[last.w], BlkOf(last.a)))
    => last.res = "unauthorized"

\* C2: ReadByteAt and WriteByteAt on a memory block without its key leave the
\* Mmu unchanged and end in the unauthorized panic naming the direction,
\* except WriteByteAt to ROM, which returns normally.
C2_Authorization ==
    [][(/\ last'.op \in {"read", "write"}
        /\ BlkOf(last'.a) \in MemBlocks
        /\ LastLacksKey)
       => /\ mmu' = mmu
          /\ IF last'.op = "write" /\ BlkOf(last'.a) = abRom
             THEN last'.res = "ok"
             ELSE last'.res = "unauthorized" /\ last'.dir = last'.op]_vars

\* an unauthorized write stopped the program while another worker holds the key
C2_Witness ==
    /\ last.op = "write"
    /\ last.res = "unauthorized"
    /\ last.b # 0
    /\ mmu.locks[BlkOf(last.a)] \notin {0, last.w}

\* C3: the owner's ReadIoByte returns the latest non-owner write since the
\* previous settle with queued = TRUE, whatever the owner wrote in between,
\* and queued = FALSE when there was no such write.
C3_QueuedWrite ==
    [][(last'.op = "readio" /\ last'.res = "ok")
       => LET p == pend[BlkOf(last'.a)] IN
          /\ p.q => (last'.q /\ last'.val = p.v)
          /\ ~p.q => ~last'.q]_vars

\* a settle returned a queued write that differs from what the owner wrote
C3_Witness ==
    /\ last.op = "readio"
    /\ last.res = "ok"
    /\ last.q
    /\ last.val # mmu.ioIF.value
    /\ last.a = AddrIF

WritableAsClaimed == {abVRam, abERam, abRam, abOam, abGpuRegs, abZero, abIE}

Writable == WritableAsClaimed \ {abERam}

\* work RAM and its echo address the same byte
SameCell(a1, a2) ==
    \/ a1 = a2
    \/ /\ BlkOf(a1) = abRam
       /\ BlkOf(a2) = abRam
       /\ (a1 - a2) % 8192 = 0

\* what the holder of a's key reads at a
HolderRead(m, a) == ReadByteAt(m, a, BlkOf(a))

\* a step: a holder's write to a's byte is read back, any other step leaves
\* what the holder reads at a as it was
ReadAfterWrite(S) ==
    \A a \in scope :
        BlkOf(a) \in S =>
            IF /\ last'.op = "write"
               /\ ~LastLacksKey
               /\ SameCell(last'.a, a)
            THEN /\ last'.res = "ok"
                 /\ HolderRead(mmu', a).res = "ok"
                 /\ HolderRead(mmu', a).val = last'.b
            ELSE /\ HolderRead(mmu', a).res = HolderRead(mmu, a).res
                 /\ HolderRead(mmu', a).val = HolderRead(mmu, a).val

C9_UnlockNoKey ==
    [][(/\ last'.op = "unlock"
        /\ BlkOf(last'.a) # abNil
        /\ LastLacksKey)
       => /\ last'.res = "ok"
          /\ keys' = keys
          /\ mmu' = mmu]_vars

\* an UnlockAddr without the key returned while another worker holds the lock
C9_Witness ==
    /\ last.op = "unlock"
    /\ last.res = "ok"
    /\ ~IsOwner(keys[last.w], BlkOf(last.a))
    /\ mmu.locks[BlkOf(last.a)] \notin {0, last.w}

\* LockAddr by a holder: nothing changes, and a second LockAddr returns what
\* the first did
LockAgain ==
    (/\ last'.op = "lock"
     /\ BlkOf(last'.a) # abNil
     /\ ~LastLacksKey)
    => /\ last'.res = "ok"
       /\ keys' = keys
       /\ mmu' = mmu
       /\ LET r1 == LockAddr(mmu, last'.a, keys[last'.w], last'.w)
              r2 == LockAddr(r1.m, last'.a, r1.ak, last'.w)
          IN r2 = r1 /\ r1.ak = keys[last'.w]

\* a holder never blocks in LockAddr, and one UnlockAddr frees the block
HolderFree ==
    \A w \in Workers, a \in scope :
        (BlkOf(a) # abNil /\ IsOwner(keys[w], BlkOf(a))) =>
            /\ ~LockBlocks(mmu, a, keys[w])
            /\ LET u == UnlockAddr(mmu, a, keys[w]) IN
                /\ u.res = "ok"
                /\ u.m.locks[BlkOf(a)] = 0
                /\ ~IsOwner(u.ak, BlkOf(a))

EchoLen == AddrOam - AddrRam - 8192

Echo(a) == a + 8192

Echoed == {a \in scope : AddrRam <= a /\ a < AddrRam + EchoLen /\ Echo(a) \in scope}

\* a holder's write at a or at its echo is read at both
EchoWrite ==
    \A a \in Echoed :
        (last'.op = "write" /\ ~LastLacksKey /\ last'.a \in {a, Echo(a)}) =>
            /\ last'.res = "ok"
            /\ HolderRead(mmu', a).val = last'.b
            /\ HolderRead(mmu', Echo(a)).val = last'.b

\* the holder reads the same byte at a and at its echo
EchoSame ==
    \A a \in Echoed :
        /\ HolderRead(mmu, a).res = "ok"
        /\ HolderRead(mmu, Echo(a)).res = "ok"
        /\ HolderRead(mmu, a).val = HolderRead(mmu, Echo(a)).val

\* C14: for 0 <= k < 0x1E00 the holder of work RAM's key reads the same byte
\* at 0xC000+k and at 0xE000+k in every state, and a write to either is read
\* at the other.
C14_EchoMirror == []EchoSame /\ [][EchoWrite]_vars

\* a byte other than 0 written at the last address of work RAM that has an
\* echo is read at the echo
C14_Witness ==
    /\ last.op = "write"
    /\ last.res = "ok"
    /\ last.a = 56831
    /\ last.b # 0
    /\ HolderRead(mmu, 65023).res = "ok"
    /\ HolderRead(mmu, 65023).val = last.b

\* C15: a WriteByteAt to an address of ROM returns normally, by a holder of
\* ROM's key or not, and leaves the ROM bytes, every other block's bytes, both
\* io ports, every mutex and every key set as they were; ROM stays the
\* cartridge's.
C15_RomReadOnly ==
    /\ [][(last'.op = "write" /\ BlkOf(last'.a) = abRom)
          => (last'.res = "ok" /\ mmu' = mmu /\ keys' = keys)]_vars
    /\ [](cpu.pos = "none" => mmu.rom = EndsRom)

\* the holder of ROM's key wrote another byte to the last address of ROM
C15_Witness ==
    /\ last.op = "write"
    /\ last.res = "ok"
    /\ last.a = 32767
    /\ IsOwner(keys[last.w], abRom)
    /\ last.b # Get(mmu.rom, last.a)
    /\ Get(mmu.rom, last.a) = 195

----------------------------------------------------------------------------
(* The Cpu. It is bus master 1; its mmuKeys are keys[Cpu].                 *)

Cpu == 1

\* interrupt.go is not part of the sources: the Interrupt bits and their
\* vectors (Interrupt.Address) are those of the specification
InterruptVblank == 1
InterruptLCDC == 2
InterruptTimer == 4
InterruptSerial == 8
InterruptKeypad == 16

InterruptAddress(in) ==
    CASE in = InterruptVblank -> 64
      [] in = InterruptLCDC -> 72
      [] in = InterruptTimer -> 80
      [] in = InterruptSerial -> 88
      [] in = InterruptKeypad -> 96
      [] OTHER -> 0

\* the entries of commandTable the programs of this model use (the table is
\* not part of the sources): operand bytes b and cycles t
commandTable ==
    (0 :> [b |-> 0, t |-> 4, f |-> "NOP"]) @@
    (49 :> [b |-> 2, t |-> 12, f |-> "LD SP,d16"]) @@
    (62 :> [b |-> 1, t |-> 8, f |-> "LD A,d8"]) @@
    (195 :> [b |-> 2, t |-> 16, f |-> "JP a16"]) @@
    (224 :> [b |-> 1, t |-> 12, f |-> "LDH (a8),A"]) @@
    (234 :> [b |-> 2, t |-> 16, f |-> "LD (a16),A"]) @@
    (51968 :> [b |-> 0, t |-> 8, f |-> "RLC B"])

\* the bytes that are no instruction of the processor: commandTable has no
\* entry for them
NoOpcode == {211, 219, 221, 227, 228, 235, 236, 237, 244, 252, 253}

\* command := commandTable[op]; a missing opcode gives the zero command
commandB(op) == IF op \in DOMAIN commandTable THEN commandTable[op].b ELSE 0

\* Cpu.readByte and Cpu.writeByte take video RAM's lock for 0x8000..0xC000
\* and OAM's for 0xFE00..0xFEA0, both ends included; -1: no lock
cpuLockFor(a) ==
    IF AddrVRam <= a /\ a <= AddrRam THEN AddrVRam
    ELSE IF AddrOam <= a /\ a <= AddrOamEnd THEN AddrOam
    ELSE -1

\* the Cpu would block in readByte or writeByte at a
cpuBlocks(m, ak, a) ==
    cpuLockFor(a) # -1 /\ LockBlocks(m, cpuLockFor(a), ak)

\* the boot ROM overlay answers the read at a
biosMapped(c, a) == ~c.biosFinished /\ a <= 255

\* c.lockAddr for the access at a, where readByte and writeByte take a lock
cpuLocked(m, ak, a) ==
    IF cpuLockFor(a) = -1 THEN Ret(m, ak, "ok", 0, FALSE)
    ELSE LockAddr(m, cpuLockFor(a), ak, Cpu)

\* a readByte or writeByte without the deferred unlock
cpuUnlockedNever(r, a) == r

\* defer c.unlockAddr: r is how the Mmu's call at a ended
cpuUnlocked(r, a) ==
    IF cpuLockFor(a) = -1 THEN r
    ELSE [UnlockAddr(r.m, cpuLockFor(a), r.ak) EXCEPT
            !.res = r.res, !.dir = r.dir, !.val = r.val]

\* the Mmu's calls with the keys an earlier call returned
ReadByteAfter(r, a) == ReadByteAt(r.m, a, r.ak)

WriteByteAfter(r, a, b) == WriteByteAt(r.m, a, b, r.ak)

\* where a byte the Cpu read came from
From(r, src) ==
    [m |-> r.m, ak |-> r.ak, res |-> r.res, dir |-> r.dir, val |-> r.val, src |-> src]

\* Cpu.readByte: the byte, where it came from, and the Mmu and keys after
\* the deferred unlock
cpuReadByte(c, m, ak, a) ==
    IF biosMapped(c, a)
    THEN From(Ret(m, ak, "ok", Get(bios.img, a), FALSE), "bios")
    ELSE From(cpuUnlocked(ReadByteAfter(cpuLocked(m, ak, a), a), a), "mmu")

\* Cpu.writeByte
cpuWriteByte(m, ak, a, b) ==
    cpuUnlocked(WriteByteAfter(cpuLocked(m, ak, a), a, b), a)

\* the second byte of a word access follows the first unless that panicked
cpuWriteNext(r, a, b) == IF r.res # "ok" THEN r ELSE cpuWriteByte(r.m, r.ak, a, b)

\* a writeWord that puts the high byte first
cpuWriteWordHighFirst(m, ak, a, w) ==
    cpuWriteNext(cpuWriteByte(m, ak, a, w \div 256), W16(a + 1), w % 256)

\* Cpu.writeWord: the low byte at addr, the high byte at addr+1
cpuWriteWord(m, ak, a, w) ==
    cpuWriteNext(cpuWriteByte(m, ak, a, w % 256), W16(a + 1), w \div 256)

\* a getInterrupt that tests the bits in the opposite order
getInterruptKeypadFirst(ie, iflag) ==
    LET on(i) == BitAnd(BitAnd(i, ie), iflag) # 0 IN
    IF on(InterruptKeypad) THEN InterruptKeypad
    ELSE IF on(InterruptSerial) THEN InterruptSerial
    ELSE IF on(InterruptTimer) THEN InterruptTimer
    ELSE IF on(InterruptLCDC) THEN InterruptLCDC
    ELSE IF on(InterruptVblank) THEN InterruptVblank
    ELSE 0

\* h := c.readByte(addr.Word() + 1); BytesToWord(h, l), after the read l
cpuReadHigh(c, l, a) ==
    IF l.res # "ok" THEN l
    ELSE [cpuReadByte(c, l.m, l.ak, a) EXCEPT !.val = 256 * @ + l.val]

\* Cpu.readWord
cpuReadWord(c, m, ak, a) == cpuReadHigh(c, cpuReadByte(c, m, ak, a), W16(a + 1))

\* Cpu.getInterrupt: the highest priority interrupt set in ie and iflag
getInterrupt(ie, iflag) ==
    LET on(i) == BitAnd(BitAnd(i, ie), iflag) # 0 IN
    IF on(InterruptVblank) THEN InterruptVblank
    ELSE IF on(InterruptLCDC) THEN InterruptLCDC
    ELSE IF on(InterruptTimer) THEN InterruptTimer
    ELSE IF on(InterruptSerial) THEN InterruptSerial
    ELSE IF on(InterruptKeypad) THEN InterruptKeypad
    ELSE 0

\* Cpu.resetInterrupt: iflag &= (Byte(i) ^ 0xFF), written to IF
resetInterrupt(m, ak, i, iflag) ==
    cpuWriteByte(m, ak, AddrIF, BitAnd(iflag, 255 - i))

\* a mask that does not look at ime
ioMaskEnabled(ime, iflag, ie) == BitAnd(iflag, ie)

\* the mask Cpu.io applies to the settled IF
ioMask(ime, iflag, ie) == IF ime = 0 THEN 0 ELSE BitAnd(iflag, ie)

\* NewCpu: registers, sp and pc are Go's zero values, ime is 1, the overlay is
\* mapped when a boot ROM is given, and the Cpu takes the keys of ROM, work
\* RAM, IF, high RAM and IE
NewCpuRegs(given) ==
    [a |-> 0, f |-> 0, b |-> 0, c |-> 0, d |-> 0, e |-> 0, h |-> 0, l |-> 0,
     sp |-> 0, pc |-> 0, m |-> 0, t |-> 0, ime |-> 1,
     biosFinished |-> ~given,
     inst |-> [o |-> 0, p |-> <<>>],
     iflag |-> 0, pos |-> "begin"]

\* mmuKeys = mmu.LockAddr(addr, mmuKeys), after the call that returned r
LockAfter(r, a) == LockAddr(r.m, a, r.ak, Cpu)

NewCpuKeys(m) ==
    LockAfter(LockAfter(LockAfter(LockAfter(
        LockAddr(m, AddrRom, 0, Cpu), AddrRam), AddrIF), AddrZero), AddrIE)

----------------------------------------------------------------------------
(* The executors of commandTable's entries (not part of the sources)       *)

Operand16(c) == c.inst.p[1] + 256 * c.inst.p[2]

\* the addresses the executor of the current instruction reads or writes
executorAddrs(c) ==
    IF c.inst.o \notin DOMAIN commandTable THEN {}
    ELSE IF commandTable[c.inst.o].f = "LDH (a8),A" THEN {65280 + c.inst.p[1]}
    ELSE IF commandTable[c.inst.o].f = "LD (a16),A" THEN {Operand16(c)}
    ELSE {}

\* the Cpu c after a stretch of its step, with how the Mmu's call r at
\* address a ended
World(c, r, a) ==
    [c |-> c, m |-> r.m, ak |-> r.ak, res |-> r.res, dir |-> r.dir, a |-> a]

executor(c, m, ak) ==
    CASE commandTable[c.inst.o].f = "NOP" ->
            World(c, Ret(m, ak, "ok", 0, FALSE), 0)
      [] commandTable[c.inst.o].f = "LD A,d8" ->
            World([c EXCEPT !.a = c.inst.p[1]], Ret(m, ak, "ok", 0, FALSE), 0)
      [] commandTable[c.inst.o].f = "LD SP,d16" ->
            World([c EXCEPT !.sp = Operand16(c)], Ret(m, ak, "ok", 0, FALSE), 0)
      [] commandTable[c.inst.o].f = "JP a16" ->
            World([c EXCEPT !.pc = Operand16(c)], Ret(m, ak, "ok", 0, FALSE), 0)
      [] commandTable[c.inst.o].f = "LDH (a8),A" ->
            World(c, cpuWriteByte(m, ak, 65280 + c.inst.p[1], c.a),
                  65280 + c.inst.p[1])
      [] commandTable[c.inst.o].f = "LD (a16),A" ->
            World(c, cpuWriteByte(m, ak, Operand16(c), c.a), Operand16(c))
      [] commandTable[c.inst.o].f = "RLC B" ->
            World([c EXCEPT !.b = W8(2 * c.b) + c.b \div 128,
                            !.f = (IF c.b = 0 THEN 128 ELSE 0) + 16 * (c.b \div 128)],
                  Ret(m, ak, "ok", 0, FALSE), 0)

\* a charge that counts machine cycles as clock cycles
chargeSame(x, t) == [x EXCEPT !.c.t = W8(@ + t), !.c.m = W8(@ + t)]

\* c.t += cmd.t; c.m += cmd.t * 4, in uint8
charge(x, t) == [x EXCEPT !.c.t = W8(@ + t), !.c.m = W8(@ + W8(t * 4))]

\* Cpu.execute: a known opcode runs its executor and is charged its cycles,
\* an opcode missing from the table does nothing
execute(c, m, ak) ==
    IF c.inst.o \in DOMAIN commandTable
    THEN charge(executor(c, m, ak), commandTable[c.inst.o].t)
    ELSE World(c, Ret(m, ak, "ok", 0, FALSE), 0)

\* Cpu.push, as cpu.pushWord: the word is written at sp-2, then sp -= 2
push(c, m, ak, w) ==
    World([c EXCEPT !.sp = W16(@ - 2)],
          cpuWriteWord(m, ak, W16(c.sp - 2), w), W16(c.sp - 2))

\* cpu.jp(in.Address()); cpu.resetInterrupt(in, iflag), after the push p
dispatch(p, in, iflag) ==
    IF p.res # "ok" THEN p
    ELSE World([p.c EXCEPT !.pc = InterruptAddress(in)],
               resetInterrupt(p.m, p.ak, in, iflag), AddrIF)

\* Cpu.interrupt, ie and iflag read
interruptWith(c, m, ak, ie, iflag) ==
    IF c.ime # 1 \/ getInterrupt(ie, iflag) = 0
    THEN World(c, Ret(m, ak, "ok", 0, FALSE), 0)
    ELSE dispatch(push([c EXCEPT !.ime = 0], m, ak, c.pc),
                  getInterrupt(ie, iflag), iflag)

\* Cpu.interrupt
interrupt(c, m, ak) ==
    interruptWith(c, m, ak, cpuReadByte(c, m, ak, AddrIE).val,
                  cpuReadByte(c, m, ak, AddrIF).val)

\* Cpu.interrupt would block in push
interruptBlocks(c, m, ak) ==
    /\ c.ime = 1
    /\ getInterrupt(cpuReadByte(c, m, ak, AddrIE).val,
                    cpuReadByte(c, m, ak, AddrIF).val) # 0
    /\ \/ cpuBlocks(m, ak, W16(c.sp - 2))
       \/ cpuBlocks(m, ak, W16(c.sp - 1))

\* a step that never unmaps the overlay
stepBiosKept(c) == c.biosFinished

\* Cpu.step's first lines: the overlay is unmapped when a step begins with
\* PC at 0x0100
stepBios(c) == IF ~c.biosFinished /\ c.pc = 256 THEN TRUE ELSE c.biosFinished

----------------------------------------------------------------------------
(* The Cpu's step, one action per stretch between two points where it may *)
(* block or another bus master may act                                     *)

CpuCall(res, dir, a) ==
    [op |-> "cpu", w |-> Cpu, a |-> IF res = "ok" THEN 0 ELSE a, b |-> 0,
     res |-> res, dir |-> dir, val |-> 0, q |-> FALSE]

\* what a stretch leaves: the Cpu (stopped by a panic), Mmu, keys and history
CpuDoes(c2, m2, ak2, res, dir, a, low) ==
    /\ cpu' = IF res = "ok" THEN c2 ELSE [cpu EXCEPT !.pos = "dead"]
    /\ mmu' = m2
    /\ keys' = [keys EXCEPT ![Cpu] = ak2]
    /\ last' = CpuCall(res, dir, a)
    /\ hist' = [hist EXCEPT !.seen100 = @ \/ (res = "ok" /\ c2.pc = 256),
                            !.began100 = @ \/ (cpu.pos = "begin" /\ cpu.pc = 256),
                            !.low = low,
                            !.fresh = FALSE,
                            !.settle = IF cpu.pos = "io"
                                       THEN [q |-> pend[abIF].q, v |-> pend[abIF].v]
                                       ELSE @]

\* the record of a read by the Cpu at a, kept when a is in 0x0000-0x00FF
LowRead(a, r) ==
    IF a <= 255 /\ r.res = "ok"
    THEN [a |-> a, val |-> r.val, src |-> r.src, seen |-> hist.seen100,
          began |-> hist.began100]
    ELSE hist.low

CpuBegin ==
    /\ Alive
    /\ cpu.pos = "begin"
    /\ CpuDoes([cpu EXCEPT !.m = 0, !.t = 0, !.biosFinished = stepBios(cpu),
                           !.pos = "io"],
               mmu, keys[Cpu], "ok", "", 0, hist.low)
    /\ UNCHANGED <<scope, pend, bios>>

\* Cpu.io, first half: iflag := ReadIoByte(AddrIF)
CpuIoSettle ==
    /\ Alive
    /\ cpu.pos = "io"
    /\ \E r \in {ReadIoByte(mmu, AddrIF, keys[Cpu])} :
        /\ CpuDoes([cpu EXCEPT !.iflag = r.val, !.pos = "iowrite"],
                   r.m, r.ak, r.res, r.dir, AddrIF, hist.low)
        /\ pend' = PendSettle(pend, AddrIF, r.res)
    /\ UNCHANGED <<scope, bios>>

\* Cpu.io, second half: the masked iflag is written back to IF
CpuIoWrite ==
    /\ Alive
    /\ cpu.pos = "iowrite"
    /\ \E b \in {ioMask(cpu.ime, cpu.iflag,
                       cpuReadByte(cpu, mmu, keys[Cpu], AddrIE).val)} :
       \E r \in {cpuWriteByte(mmu, keys[Cpu], AddrIF, b)} :
        /\ CpuDoes([cpu EXCEPT !.pos = "interrupt"], r.m, r.ak, r.res, r.dir,
                   AddrIF, hist.low)
        /\ pend' = PendWrite(pend, AddrIF, b, keys[Cpu], r.res)
    /\ UNCHANGED <<scope, bios>>

CpuInterrupt ==
    /\ Alive
    /\ cpu.pos = "interrupt"
    /\ ~interruptBlocks(cpu, mmu, keys[Cpu])
    /\ \E x \in {interrupt(cpu, mmu, keys[Cpu])} :
        CpuDoes([x.c EXCEPT !.pos = "fetch"], x.m, x.ak, x.res, x.dir, x.a, hist.low)
    /\ UNCHANGED <<scope, pend, bios>>

\* where fetch goes once the opcode op is known and n operands are read
AfterOpcode(op, n) == IF n < commandB(op) THEN "operand" ELSE "lockgpu"

\* Cpu.fetch: the opcode byte
CpuFetch ==
    /\ Alive
    /\ cpu.pos = "fetch"
    /\ biosMapped(cpu, cpu.pc) \/ ~cpuBlocks(mmu, keys[Cpu], cpu.pc)
    /\ \E r \in {cpuReadByte(cpu, mmu, keys[Cpu], cpu.pc)} :
        CpuDoes([cpu EXCEPT !.pc = W16(@ + 1),
                            !.inst = [o |-> r.val, p |-> <<>>],
                            !.pos = IF r.val = 203 THEN "fetchcb"
                                    ELSE AfterOpcode(r.val, 0)],
                r.m, r.ak, r.res, r.dir, cpu.pc, LowRead(cpu.pc, r))
    /\ UNCHANGED <<scope, pend, bios>>

\* Cpu.fetch: the second byte of a 0xCB opcode
CpuFetchCB ==
    /\ Alive
    /\ cpu.pos = "fetchcb"
    /\ biosMapped(cpu, cpu.pc) \/ ~cpuBlocks(mmu, keys[Cpu], cpu.pc)
    /\ \E r \in {cpuReadByte(cpu, mmu, keys[Cpu], cpu.pc)} :
        CpuDoes([cpu EXCEPT !.pc = W16(@ + 1),
                            !.inst = [o |-> 51968 + r.val, p |-> <<>>],
                            !.pos = AfterOpcode(51968 + r.val, 0)],
                r.m, r.ak, r.res, r.dir, cpu.pc, LowRead(cpu.pc, r))
    /\ UNCHANGED <<scope, pend, bios>>

\* Cpu.fetch: one operand byte
CpuOperand ==
    /\ Alive
    /\ cpu.pos = "operand"
    /\ biosMapped(cpu, cpu.pc) \/ ~cpuBlocks(mmu, keys[Cpu], cpu.pc)
    /\ \E r \in {cpuReadByte(cpu, mmu, keys[Cpu], cpu.pc)} :
        CpuDoes([cpu EXCEPT !.pc = W16(@ + 1),
                            !.inst.p = Append(@, r.val),
                            !.pos = AfterOpcode(cpu.inst.o, Len(cpu.inst.p) + 1)],
                r.m, r.ak, r.res, r.dir, cpu.pc, LowRead(cpu.pc, r))
    /\ UNCHANGED <<scope, pend, bios>>

\* c.lockAddr(AddrGpuRegs)
CpuLockGpu ==
    /\ Alive
    /\ cpu.pos = "lockgpu"
    /\ ~LockBlocks(mmu, AddrGpuRegs, keys[Cpu])
    /\ \E r \in {LockAddr(mmu, AddrGpuRegs, keys[Cpu], Cpu)} :
        CpuDoes([cpu EXCEPT !.pos = "execute"], r.m, r.ak, r.res, r.dir,
                AddrGpuRegs, hist.low)
    /\ UNCHANGED <<scope, pend, bios>>

\* c.execute(); c.unlockAddr(AddrGpuRegs)
CpuExecute ==
    /\ Alive
    /\ cpu.pos = "execute"
    /\ \A a \in executorAddrs(cpu) : ~cpuBlocks(mmu, keys[Cpu], a)
    /\ \E x \in {execute(cpu, mmu, keys[Cpu])} :
       \E u \in {UnlockAddr(x.m, AddrGpuRegs, x.ak)} :
          IF x.res # "ok"
          THEN CpuDoes(x.c, x.m, x.ak, x.res, x.dir, x.a, hist.low)
          ELSE CpuDoes([x.c EXCEPT !.pos = "begin"], u.m, u.ak, u.res, u.dir,
                       AddrGpuRegs, hist.low)
    /\ UNCHANGED <<scope, pend, bios>>

----------------------------------------------------------------------------
(* The arithmetic and the jumps of cpu (part_000). An operation gets the   *)
(* flags register F as it was and gives the result and F as it leaves it.  *)

flagZ == 128
flagN == 64
flagH == 32
flagC == 16

\* register8's getFlag on F
getFlag(f, fl) == BitAnd(f, fl) = fl

\* c.f.set(0), then setFlag for each flag whose condition holds
Flags(z, n, h, cy) ==
    (IF z THEN flagZ ELSE 0) + (IF n THEN flagN ELSE 0) +
    (IF h THEN flagH ELSE 0) + (IF cy THEN flagC ELSE 0)

\* carry := 1 if c.f.getFlag(flagC)
carryOf(f) == IF getFlag(f, flagC) THEN 1 ELSE 0

\* an add that never sets the half carry
addNoHalf(f, a, b) ==
    [r |-> W8(a + b), f |-> Flags(W8(a + b) = 0, FALSE, FALSE, a + b > 255)]

\* cpu.add; a&0x0F+b&0x0F is (a&0x0F)+(b&0x0F) in Go, computed in uint8
add(f, a, b) ==
    [r |-> W8(a + b),
     f |-> Flags(W8(a + b) = 0, FALSE,
                 W8(BitAnd(a, 15) + BitAnd(b, 15)) > 15,
                 a + b > 255)]

\* cpu.adc with the carry read
adcWith(a, b, carry) ==
    [r |-> W8(a + b + carry),
     f |-> Flags(W8(a + b + carry) = 0, FALSE,
                 W8(BitAnd(a, 15) + BitAnd(b, 15) + carry) > 15,
                 a + b + carry > 255)]

\* cpu.adc
adc(f, a, b) == adcWith(a, b, carryOf(f))

\* cpu.sbc with the carry read: b + carry and b&0x0F + carry are uint8 sums
sbcWith(a, b, carry) ==
    [r |-> W8(a + 256 - W8(b + carry)),
     f |-> Flags(W8(a + 256 - W8(b + carry)) = 0, TRUE,
                 BitAnd(a, 15) >= W8(BitAnd(b, 15) + carry),
                 a >= W8(b + carry))]

\* cpu.sbc
sbc(f, a, b) == sbcWith(a, b, carryOf(f))

\* cpu.sub
sub(f, a, b) ==
    [r |-> W8(a + 256 - b),
     f |-> Flags(W8(a + 256 - b) = 0, TRUE, BitAnd(a, 15) >= BitAnd(b, 15), a >= b)]

\* register16(x) of an int8 x: the conversion extends the sign
register16(x) == (x + 65536) % 65536

\* -n in int8: -(-128) is -128
negInt8(n) == IF n = -128 THEN -128 ELSE -n

\* cpu.jr: the program counter after the jump
jr(pc, n) ==
    IF n < 0 THEN W16(pc + register16(negInt8(n)))
    ELSE W16(pc + register16(n))

\* cpu.jrF and cpu.jrNF
jrF(f, fl, pc, n) == IF getFlag(f, fl) THEN jr(pc, n) ELSE pc

jrNF(f, fl, pc, n) == IF ~getFlag(f, fl) THEN jr(pc, n) ELSE pc

\* return uint16(h)<<8 + uint16(l), with F as the high byte's operation left it
addWordHigh(lo, hi) == [r |-> 256 * hi.r + lo.r, f |-> hi.f]

\* h = c.sbc(h, 0) after l = c.sub(l, bu) gave lo
addWordNeg(h, lo) == addWordHigh(lo, sbc(lo.f, h, 0))

\* h = c.adc(h, 0) after l = c.add(l, bu) gave lo
addWordPos(h, lo) == addWordHigh(lo, adc(lo.f, h, 0))

\* cpu.addWordR: bu is uint8(-b) for b < 0 and uint8(b) otherwise
addWordR(f, a, b) ==
    IF b < 0
    THEN addWordNeg(a \div 256, sub(f, a % 256, W8(negInt8(b) + 256)))
    ELSE addWordPos(a \div 256, add(f, a % 256, b))

\* cpu.popWord: the word read at sp, then sp += 2
pop(c, m, ak) ==
    [World([c EXCEPT !.sp = W16(@ + 2)], cpuReadWord(c, m, ak, c.sp), c.sp)
        EXCEPT !.a = cpuReadWord(c, m, ak, c.sp).val]

----------------------------------------------------------------------------
(* One operation of the cpu on chosen operands, and a pop after a push     *)

\* operand bytes, signed offsets, words, and the F, PC and SP the cpu has when
\* the operation is made
Bytes == {0, 1, 15, 16, 127, 128, 240, 254, 255}

Offsets == {-128, -5, -1, 0, 1, 127}

Words == {0, 255, 4660, 65535}

FVals == {0, flagC, flagZ + flagC, flagZ + flagN + flagH + flagC}

PcVals == {2, 32768, 65535}

StackVals == {258, 49154, 57344, 65410, 65534}

\* cpu.newCpu: sp is 0xFFFE, the rest zero
newCpu == [NewCpuRegs(FALSE) EXCEPT !.sp = 65534, !.pos = "ops"]

\* the record of an operation: its operands, its result, and F, PC and SP as
\* they were when it was made
OpCall(op, a, b, val, res) ==
    [op |-> op, w |-> Cpu, a |-> a, b |-> b, res |-> res, dir |-> "",
     val |-> val, q |-> FALSE, f |-> cpu.f, pc |-> cpu.pc, sp |-> cpu.sp]

\* an arithmetic operation that gave r
OpAlu(op, a, b, r) ==
    /\ last.op = "none"
    /\ cpu' = [cpu EXCEPT !.f = r.f]
    /\ last' = OpCall(op, a, b, r.r, "ok")
    /\ UNCHANGED <<mmu, keys, scope, pend, bios, hist>>

OpAdd(a, b) == OpAlu("add", a, b, add(cpu.f, a, b))

OpAdc(a, b) == OpAlu("adc", a, b, adc(cpu.f, a, b))

OpSbc(a, b) == OpAlu("sbc", a, b, sbc(cpu.f, a, b))

OpAddWordR(a, n) == OpAlu("addWordR", a, n, addWordR(cpu.f, a, n))

\* a jump that left the program counter at pc
OpJump(op, fl, n, pc) ==
    /\ last.op = "none"
    /\ cpu' = [cpu EXCEPT !.pc = pc]
    /\ last' = OpCall(op, fl, n, pc, "ok")
    /\ UNCHANGED <<mmu, keys, scope, pend, bios, hist>>

OpJr(n) == OpJump("jr", 0, n, jr(cpu.pc, n))

OpJrF(fl, n) == OpJump("jrF", fl, n, jrF(cpu.f, fl, cpu.pc, n))

OpJrNF(fl, n) == OpJump("jrNF", fl, n, jrNF(cpu.f, fl, cpu.pc, n))

OpPush(w) ==
    /\ last.op = "none"
    /\ \E x \in {push(cpu, mmu, keys[Cpu], w)} :
        /\ cpu' = x.c
        /\ mmu' = x.m
        /\ keys' = [keys EXCEPT ![Cpu] = x.ak]
        /\ last' = OpCall("push", 0, 0, w, x.res)
    /\ UNCHANGED <<scope, pend, bios, hist>>

\* a pop right after a push; the record keeps the word pushed (b) and the SP
\* before the push (sp)
OpPop ==
    /\ last.op = "push"
    /\ last.res = "ok"
    /\ \E x \in {pop(cpu, mmu, keys[Cpu])} :
        /\ cpu' = x.c
        /\ mmu' = x.m
        /\ keys' = [keys EXCEPT ![Cpu] = x.ak]
        /\ last' = [OpCall("pop", 0, last.val, x.a, x.res) EXCEPT !.sp = last.sp]
    /\ UNCHANGED <<scope, pend, bios, hist>>

InitOps ==
    \E f \in FVals, pc \in PcVals, sp \in StackVals :
        /\ mmu = NewCpuKeys(NewMmu(Empty)).m
        /\ keys = [w \in Workers |-> IF w = Cpu THEN NewCpuKeys(NewMmu(Empty)).ak ELSE 0]
        /\ last = NoCall
        /\ scope = {}
        /\ pend = NoPend
        /\ cpu = [newCpu EXCEPT !.f = f, !.pc = pc, !.sp = sp]
        /\ bios = NoBios
        /\ hist = NoHist

NextOps ==
    \/ \E a \in Bytes, b \in Bytes : OpAdd(a, b)
    \/ \E a \in Bytes, b \in Bytes : OpAdc(a, b)
    \/ \E a \in Bytes, b \in Bytes : OpSbc(a, b)
    \/ \E a \in Words, n \in Offsets : OpAddWordR(a, n)
    \/ \E n \in Offsets : OpJr(n)
    \/ \E fl \in {flagZ, flagC}, n \in Offsets : OpJrF(fl, n)
    \/ \E fl \in {flagZ, flagC}, n \in Offsets : OpJrNF(fl, n)
    \/ \E w \in Words : OpPush(w)
    \/ OpPop

SpecOps == InitOps /\ [][NextOps]_vars

----------------------------------------------------------------------------
(* The Cpu running a program beside the other bus masters                  *)

\* a memory image from <<address, byte>> pairs
Image(pairs) ==
    [a \in {p[1] : p \in {q \in pairs : q[2] # 0}} |->
        (CHOOSE p \in pairs : p[1] = a)[2]]

\* JP a16 at address at
Jp(at, to) == {<<at, 195>>, <<at + 1, to % 256>>, <<at + 2, to \div 256>>}

\* a cartridge: IE := ie, SP := spv, then an idle loop; every interrupt
\* vector loops on itself
Cartridge(ie, spv) ==
    Image({<<0, 62>>, <<1, ie>>, <<2, 224>>, <<3, 255>>,
           <<4, 49>>, <<5, spv % 256>>, <<6, spv \div 256>>}
          \cup Jp(7, 7) \cup Jp(64, 64) \cup Jp(72, 72) \cup Jp(80, 80)
          \cup Jp(88, 88) \cup Jp(96, 96))

\* a cartridge to start after a boot ROM: at 0x0100 a NOP, then a jump to a
\* loop at 0x0040
BootedCartridge == Image(Jp(257, 64) \cup Jp(64, 64))

\* a boot ROM that ends in one byte instructions at 0x00FE and 0x00FF (0x00),
\* one whose last instruction has its operand at 0x0100 (0x3E), and one
\* whose last opcode has its second byte there (0xCB)
BootRom(lastOp) ==
    Image(Jp(0, 254) \cup {<<254, 0>>, <<255, lastOp>>} \cup Jp(64, 67) \cup Jp(67, 67))

\* a cartridge that stores A in video RAM, then runs into 0xD3, which is no
\* opcode of the processor, and loops
StrayCartridge ==
    Image({<<0, 62>>, <<1, 1>>, <<2, 234>>, <<3, 0>>, <<4, 128>>, <<5, 211>>}
          \cup Jp(6, 6))

\* a cartridge that stores A in external (cartridge) RAM, then loops
ERamCartridge ==
    Image({<<0, 62>>, <<1, 1>>, <<2, 234>>, <<3, 0>>, <<4, 160>>} \cup Jp(5, 5))

IEVals == {5, 26, 255}

SpVals == {0, 65534}

\* what the other bus masters write to IF
IrqVals == {6, 16, 24, 229}

\* the other bus master of a Cpu run
Gpu == Cpu + 1

Programs ==
    {[bios |-> NoBios, rom |-> Cartridge(ie, spv)] : ie \in IEVals, spv \in SpVals}
    \cup {[bios |-> [given |-> TRUE, img |-> BootRom(op)], rom |-> BootedCartridge] :
            op \in {0, 62, 203}}
    \cup {[bios |-> NoBios, rom |-> StrayCartridge],
          [bios |-> NoBios, rom |-> ERamCartridge]}

InitCpu ==
    \E prog \in Programs :
        LET k == NewCpuKeys(NewMmu(prog.rom)) IN
        /\ mmu = k.m
        /\ keys = [w \in Workers |-> IF w = Cpu THEN k.ak ELSE 0]
        /\ last = NoCall
        /\ scope = {AddrIF, AddrGpuRegs}
        /\ pend = NoPend
        /\ cpu = NewCpuRegs(prog.bios.given)
        /\ bios = prog.bios
        /\ hist = NoHist

NextCpu ==
    \/ CpuBegin
    \/ CpuIoSettle
    \/ CpuIoWrite
    \/ CpuInterrupt
    \/ CpuFetch
    \/ CpuFetchCB
    \/ CpuOperand
    \/ CpuLockGpu
    \/ CpuExecute
    \/ \E b \in IrqVals : WWrite(Gpu, AddrIF, b)
    \/ WLock(Gpu, AddrGpuRegs)
    \/ WUnlock(Gpu, AddrGpuRegs)

SpecCpu == InitCpu /\ [][NextCpu]_vars

----------------------------------------------------------------------------
(* Properties of the Cpu's step                                            *)

IrqBits == {InterruptVblank, InterruptLCDC, InterruptTimer, InterruptSerial,
            InterruptKeypad}

\* what the owner of IF reads there, and the interrupts requested and enabled
OwnerIF(m) == m.ioIF.value

Requested(m) == {i \in IrqBits : BitAnd(i, m.ie) # 0 /\ BitAnd(i, OwnerIF(m)) # 0}

Lowest(S) == CHOOSE i \in S : \A j \in S : i <= j

VectorOf(i) == 64 + 8 * Cardinality({j \in IrqBits : j < i})

\* the word the Cpu reads back at a
WordAt(m, ak, a) ==
    ReadByteAt(m, a, ak).val + 256 * ReadByteAt(m, W16(a + 1), ak).val

\* the interrupt phase of a step ran to its end
InterruptPhase == cpu.pos = "interrupt" /\ cpu'.pos = "fetch"

Dispatches ==
    (InterruptPhase /\ cpu.ime = 1 /\ Requested(mmu) # {}) =>
        /\ cpu'.pc = VectorOf(Lowest(Requested(mmu)))
        /\ cpu'.ime = 0
        /\ cpu'.sp = W16(cpu.sp - 2)
        /\ WordAt(mmu', keys'[Cpu], cpu'.sp) = cpu.pc
        /\ OwnerIF(mmu') = OwnerIF(mmu) - Lowest(Requested(mmu))
        /\ BitAnd(OwnerIF(mmu), Lowest(Requested(mmu))) # 0

\* C4: whenever the interrupt phase of a step runs with IME = 1 and an
\* interrupt both enabled in IE and requested in IF, it selects the lowest
\* such bit, pushes the previous PC, sets PC to that interrupt's vector,
\* clears IME, and clears that one bit of IF and no other
C4_InterruptDispatch == [][Dispatches]_vars

\* the LCDC interrupt was dispatched while the Timer's stayed requested, with
\* the stack at the top of high RAM
C4_Witness ==
    /\ cpu.pos = "fetch"
    /\ cpu.pc = 72
    /\ cpu.ime = 0
    /\ cpu.sp = 65532
    /\ mmu.ie = 255
    /\ OwnerIF(mmu) = 4
    /\ WordAt(mmu, keys[Cpu], cpu.sp) = 7

\* C5: after the io phase of a step IF is 0 when IME = 0 and the settled
\* value masked by IE when IME = 1, so IF has no bit that is clear in IE; the
\* owner and the other bus masters read that value; the settled value is the
\* write that was queued, when one was
C5_IFSettlement ==
    cpu.pos = "interrupt" =>
        /\ cpu.ime = 0 => OwnerIF(mmu) = 0
        /\ cpu.ime = 1 => OwnerIF(mmu) = BitAnd(cpu.iflag, mmu.ie)
        /\ cpu.ime = 1 => BitAnd(OwnerIF(mmu), 255 - mmu.ie) = 0
        /\ ReadByteAt(mmu, AddrIF, keys[Cpu]).val = OwnerIF(mmu)
        /\ ReadByteAt(mmu, AddrIF, keys[Gpu]).val = OwnerIF(mmu)
        /\ hist.settle.q => cpu.iflag = hist.settle.v

\* a queued request with bits that IE masks was settled with IME = 1
C5_Witness ==
    /\ cpu.pos = "interrupt"
    /\ cpu.ime = 1
    /\ hist.settle.q
    /\ cpu.iflag = 6
    /\ mmu.ie = 5
    /\ OwnerIF(mmu) = 4
    /\ keys[Gpu] = 0

\* the last read of 0x0000-0x00FF by the Cpu, when a boot ROM was given
BootRead == bios.given /\ hist.low.a # -1

FromBios == hist.low.src = "bios" /\ hist.low.val = Get(bios.img, hist.low.a)

FromCartridge == hist.low.src = "mmu" /\ hist.low.val = Get(mmu.rom, hist.low.a)

\* C6 as stated: the boot ROM answers until the first moment PC is 0x0100 and
\* the cartridge from then on
C6_AsClaimed ==
    BootRead => IF hist.low.seen THEN FromCartridge ELSE FromBios

\* C6: the boot ROM answers reads at 0x0000-0x00FF until a step begins with
\* PC at 0x0100, the cartridge answers from that step on, and the overlay is
\* never mapped again
C6_BootHandoff ==
    /\ [](BootRead => IF hist.low.began THEN FromCartridge ELSE FromBios)
    /\ [][cpu.pos # "none" /\ cpu.biosFinished => cpu'.biosFinished]_vars

\* the cartridge answered a read below 0x0100 after the handoff
C6_Witness ==
    /\ BootRead
    /\ hist.low.began
    /\ hist.low.a = 64
    /\ hist.low.src = "mmu"
    /\ hist.low.val = 195
    /\ cpu.biosFinished

\* C11 as stated: a step that fetched an opcode with no entry in
\* commandTable ends in a fatal error, it does not complete
C11_AsClaimed ==
    [][(cpu.pos = "execute" /\ cpu.inst.o \in NoOpcode /\ cpu' # cpu)
       => cpu'.pos = "dead"]_vars

\* C12 as stated: after the Cpu is created and before its first step the
\* registers are 0, SP is 0xFFFE, PC is 0, IME is 1, and the boot ROM is
\* mapped exactly when one was given
C12_AsClaimed ==
    (cpu.pos = "begin" /\ hist.fresh) =>
        /\ \A r \in {"a", "b", "c", "d", "e", "f", "h", "l"} : cpu[r] = 0
        /\ cpu.sp = 65534
        /\ cpu.pc = 0
        /\ cpu.ime = 1
        /\ biosMapped(cpu, 0) <=> bios.given

\* the clock cycles commandTable gives the opcode o, none without an entry
CyclesOf(o) == IF o \in DOMAIN commandTable THEN commandTable[o].t ELSE 0

Accounts ==
    /\ (cpu.pos = "begin" /\ cpu'.pos = "io") => (cpu'.t = 0 /\ cpu'.m = 0)
    /\ (cpu.pos = "execute" /\ cpu'.pos = "begin") =>
            (cpu'.t = CyclesOf(cpu.inst.o) /\ cpu'.m = 4 * cpu'.t)

----------------------------------------------------------------------------
(* The arithmetic, the relative jumps and the stack, one operation at a time *)

\* F as the four flags say, its low four bits zero
FlagByte(z, n, h, cy) ==
    128 * (IF z THEN 1 ELSE 0) + 64 * (IF n THEN 1 ELSE 0) +
    32 * (IF h THEN 1 ELSE 0) + 16 * (IF cy THEN 1 ELSE 0)

\* C before the operation, 0 or 1
PriorC == ((last.f \div 16) % 2)

\* the carry the operation adds in: none for add, the prior C for adc
CarryIn == IF last.op = "adc" THEN PriorC ELSE 0

\* C16: add returns (a + b) mod 256 and leaves F with Z = (result = 0), N = 0,
\* H = ((a & 0x0F) + (b & 0x0F) > 0x0F), C = (a + b > 0xFF), whatever F held
\* before; adc does the same with the prior C added into the result and into
\* both tests
C16_AddFlagExact ==
    last.op \in {"add", "adc"} =>
        /\ last.val = (last.a + last.b + CarryIn) % 256
        /\ cpu.f = FlagByte((last.a + last.b + CarryIn) % 256 = 0, FALSE,
                            (last.a % 16) + (last.b % 16) + CarryIn > 15,
                            last.a + last.b + CarryIn > 255)

\* adc 0x0F, 0xF0 with C set and Z, N, H set before: 0x00 with Z, H and C
C16_Witness ==
    /\ last.op = "adc"
    /\ last.a = 15
    /\ last.b = 240
    /\ last.f = flagZ + flagN + flagH + flagC
    /\ last.val = 0
    /\ cpu.f = flagZ + flagH + flagC

\* C17: sbc returns (a - (b + c)) mod 256 with c the prior C, sets C exactly
\* when a >= b + c, b + c an unbounded integer, and H exactly when
\* (a & 0x0F) >= (b & 0x0F) + c
C17_AsClaimed ==
    last.op = "sbc" =>
        /\ last.val = (last.a - (last.b + PriorC)) % 256
        /\ (((cpu.f \div 16) % 2) = 1) <=> (last.a >= last.b + PriorC)
        /\ (((cpu.f \div 32) % 2) = 1) <=> ((last.a % 16) >= (last.b % 16) + PriorC)

\* the jump of the operation is taken
Taken ==
    \/ last.op = "jr"
    \/ last.op = "jrF" /\ ((last.f \div last.a) % 2) = 1
    \/ last.op = "jrNF" /\ ((last.f \div last.a) % 2) = 0

\* C18: a taken JR sets PC to (PC after the fetch + e8) mod 2^16, for negative
\* e8 as for the others; a JR whose condition is false leaves PC where it was
C18_AsClaimed ==
    last.op \in {"jr", "jrF", "jrNF"} =>
        cpu.pc = IF Taken THEN (last.pc + last.b) % 65536 ELSE last.pc

\* the two bytes under s lie in one block that keeps what is written to it and
\* that the Cpu holds
StackHeld(s) ==
    /\ BlkOf(W16(s - 2)) = BlkOf(W16(s - 1))
    /\ BlkOf(W16(s - 2)) \in {abVRam, abRam, abOam, abZero}
    /\ IsOwner(keys[Cpu], BlkOf(W16(s - 2)))

\* C19: a push of w with SP = s leaves SP = s - 2, the low byte of w at s - 2
\* and the high byte at s - 1; a pop right after it returns w and leaves
\* SP = s, for every s whose two bytes lie in one writable block the Cpu holds
C19_StackRoundTrip ==
    /\ (last.op = "push" /\ StackHeld(last.sp)) =>
            /\ last.res = "ok"
            /\ cpu.sp = (last.sp - 2) % 65536
            /\ HolderRead(mmu, W16(last.sp - 2)).val = last.val % 256
            /\ HolderRead(mmu, W16(last.sp - 1)).val = last.val \div 256
    /\ (last.op = "pop" /\ StackHeld(last.sp)) =>
            /\ last.res = "ok"
            /\ last.val = last.b
            /\ cpu.sp = last.sp

\* 0x1234 pushed with SP = 0xFFFE and popped again
C19_Witness ==
    /\ last.op = "pop"
    /\ last.sp = 65534
    /\ last.b = 4660
    /\ last.val = 4660
    /\ cpu.sp = 65534
    /\ HolderRead(mmu, 65532).val = 52
    /\ HolderRead(mmu, 65533).val = 18

----------------------------------------------------------------------------
(* The order of the Cpu's locks within a step                              *)

\* the Cpu is about to run an executor whose readByte or writeByte asks for
\* the VRAM or the OAM lock
AsksVRamOrOam ==
    /\ cpu.pos = "execute"
    /\ \E a \in executorAddrs(cpu) : cpuLockFor(a) \in {AddrVRam, AddrOam}

\* C20: within a step the Cpu takes contested keys in the order VRAM, OAM,
\* GPU registers: in no reachable state does it ask for the VRAM or the OAM
\* lock while it holds the GPU registers' key
C20_AsClaimed == ~(AsksVRamOrOam /\ IsOwner(keys[Cpu], abGpuRegs))

----------------------------------------------------------------------------
(* The Cpu's keys from step to step                                        *)

\* the keys NewCpu takes
StartupKeys == abRom + abRam + abIF + abZero + abIE

\* the blocks the Cpu locks for an access or for execute
Contested == {abVRam, abOam, abGpuRegs}

\* C21: before and after each completed step the Cpu's keys are exactly the
\* startup set (ROM, work RAM, IF, high RAM, IE): every VRAM, OAM or GPU
\* registers key taken in a step is released, with its mutex, by the end of
\* the step, and no startup key is ever released
C21_KeyLifecycle ==
    /\ cpu.pos = "begin" =>
            /\ keys[Cpu] = StartupKeys
            /\ \A blk \in Contested : mmu.locks[blk] # Cpu
    /\ cpu.pos # "none" =>
            \A blk \in {abRom, abRam, abIF, abZero, abIE} :
                IsOwner(keys[Cpu], blk) /\ mmu.locks[blk] = Cpu

\* a step that executed LD (0x8000),A has ended: the byte is in VRAM and the
\* VRAM and GPU registers keys are back
C21_Witness ==
    /\ cpu.pos = "begin"
    /\ ~hist.fresh
    /\ cpu.inst.o = 234
    /\ Operand16(cpu) = AddrVRam
    /\ ReadByteAt(mmu, AddrVRam, abVRam).val = cpu.a
    /\ cpu.a # 0
    /\ keys[Cpu] = StartupKeys
    /\ \A blk \in Contested : mmu.locks[blk] # Cpu

----------------------------------------------------------------------------
(* The Cpu's accesses and the keys it has for them                         *)

\* C22: every byte access the Cpu makes in a step to an address in ROM, VRAM,
\* external RAM, work RAM, OAM, the GPU registers, high RAM or IE is made with
\* that block's key: no access of the Cpu ends in an unauthorized access
C22_AsClaimed ==
    ~(/\ last.op = "cpu"
      /\ last.res = "unauthorized"
      /\ BlkOf(last.a) \in {abRom, abVRam, abERam, abRam, abOam, abGpuRegs, abZero, abIE})

----------------------------------------------------------------------------
(* The sum of a word and a signed byte                                     *)

\* C23: for every 16-bit sp and every signed 8-bit e8 the helper that adds e8
\* to sp, low byte through add or sub and the carry or borrow into the high
\* byte through adc or sbc, returns (sp + e8) mod 2^16
C23_AsClaimed ==
    last.op = "addWordR" => last.val = (last.a + last.b) % 65536

====
